---- MODULE Spec2Model ----
(***************************************************************************)
(* Model of the AI form-assistant server: the session store                *)
(* (services/session.service.js), the conversation gateway                 *)
(* (services/ai.service.js) and the socket handlers (server.js).           *)
(*                                                                         *)
(* JavaScript values are tagged records; strings are sequences of          *)
(* one-character strings, so that toLowerCase, includes and startsWith are *)
(* computed character by character.                                        *)
(***************************************************************************)
EXTENDS Integers, Sequences, FiniteSets, Bags, TLC

VARIABLES
  sessions,   \* SessionService.sessions: sessionId -> session record
  objects,    \* the accumulatedFormData objects on the heap, by reference
  usedIds,    \* the identifiers uuidv4() has handed out so far
  chats,      \* number of conversation handles the gateway has created
  now,        \* wall clock, in milliseconds
  calls,      \* bag of sendMessage calls suspended on the gateway round trip
  held,       \* summaries returned by getSessionInfo and kept by the caller
  ret,        \* what the last operation returned or threw
  out,        \* socket events emitted by the last handler step, in order
  gw,         \* gateway methods invoked by the last step, in order
  vcase,      \* a pure function applied to one input: the input and the result
  services    \* singleton.service.js: the credential, the two instances, the heap

vars == <<sessions, objects, usedIds, chats, now, calls, held, ret, out, gw, vcase, services>>

-----------------------------------------------------------------------------
(* Bounds of the model *)

MaxSessions == 2
MaxInflight == 2
MaxTicks == 2
MaxFields == 2
MaxHeld == 1
MaxInstances == 4

-----------------------------------------------------------------------------
(* JavaScript values *)

Undefined == [t |-> "undefined"]
Null == [t |-> "null"]
Bool(b) == [t |-> "boolean", v |-> b]
Num(n) == [t |-> "number", v |-> n]
Str(s) == [t |-> "string", v |-> s]
Arr(s) == [t |-> "array", v |-> s]
Obj(f) == [t |-> "object", v |-> f]

\* typeof x
TypeOf(x) ==
  IF x.t \in {"null", "array", "object"} THEN "object" ELSE x.t

\* Array.isArray(x)
IsArray(x) == x.t = "array"

\* the truthiness of x, as in `!x` and `a && b`
Truthy(x) ==
  CASE x.t \in {"undefined", "null"} -> FALSE
    [] x.t = "boolean" -> x.v
    [] x.t = "number" -> x.v # 0
    [] x.t = "string" -> x.v # <<>>
    [] OTHER -> TRUE

\* Object.keys(x) of an object
Keys(x) == DOMAIN x.v

\* x[k], undefined when the property is absent
Get(x, k) == IF x.t = "object" /\ k \in DOMAIN x.v THEN x.v[k] ELSE Undefined

\* the empty object literal {}
EmptyObject == <<>>

\* obj[k] = v on a property map
SetProp(m, k, v) == [x \in (DOMAIN m) \cup {k} |-> IF x = k THEN v ELSE m[x]]

-----------------------------------------------------------------------------
(* Strings *)

UpperChars == <<"A","B","C","D","E","F","G","H","I","J","K","L","M",
                "N","O","P","Q","R","S","T","U","V","W","X","Y","Z">>
LowerChars == <<"a","b","c","d","e","f","g","h","i","j","k","l","m",
                "n","o","p","q","r","s","t","u","v","w","x","y","z">>

LowerChar(c) ==
  IF \E i \in 1..Len(UpperChars) : UpperChars[i] = c
  THEN LowerChars[CHOOSE i \in 1..Len(UpperChars) : UpperChars[i] = c]
  ELSE c

\* String.prototype.toLowerCase
ToLowerCase(s) == [i \in 1..Len(s) |-> LowerChar(s[i])]

\* String.prototype.startsWith
StartsWith(s, p) == Len(p) <= Len(s) /\ SubSeq(s, 1, Len(p)) = p

\* String.prototype.includes
Includes(s, p) ==
  \E i \in 1..(Len(s) - Len(p) + 1) : SubSeq(s, i, i + Len(p) - 1) = p

-----------------------------------------------------------------------------
(* Schema validator (AIService.validateSchema) *)

S_string == <<"s","t","r","i","n","g">>
S_number == <<"n","u","m","b","e","r">>
S_boolean == <<"b","o","o","l","e","a","n">>
S_date == <<"d","a","t","e">>
S_email == <<"e","m","a","i","l">>
S_phone == <<"p","h","o","n","e">>
S_url == <<"u","r","l">>

validTypes == {S_string, S_number, S_boolean, S_date, S_email, S_phone, S_url}

\* variant of validType: the tag is compared without toLowerCase
validTypeExact(type) ==
  TypeOf(type) = "string" /\ type.v \in validTypes

\* the test of fields.every(...): typeof type === "string" &&
\* validTypes.includes(type.toLowerCase())
validType(type) ==
  TypeOf(type) = "string" /\ ToLowerCase(type.v) \in validTypes

\* variant of validateSchema: the check for zero fields is missing
validateSchemaAcceptsEmpty(schema) ==
  IF ~Truthy(schema) \/ TypeOf(schema) # "object" \/ IsArray(schema)
  THEN FALSE
  ELSE \A field \in Keys(schema) : validType(schema.v[field])

validateSchema(schema) ==
  IF ~Truthy(schema) \/ TypeOf(schema) # "object" \/ IsArray(schema)
  THEN FALSE
  ELSE IF Cardinality(Keys(schema)) = 0
  THEN FALSE
  ELSE \A field \in Keys(schema) : validType(schema.v[field])

-----------------------------------------------------------------------------
(* The inputs the model draws from *)

K_a == <<"a">>
K_b == <<"b">>
K_Url == <<"U","r","l">>
V_x == <<"x">>
V_y == <<"y">>
V_https_x == <<"h","t","t","p","s",":","/","/","x">>
V_httpbin == <<"h","t","t","p","b","i","n">>
M_hi == <<"h","i">>
M_ok == <<"o","k">>
T_garbled == <<"o","o","p","s">>
T_null == <<"n","u","l","l">>
T_json == <<"{","}">>

SessionIds == 1..MaxSessions

\* schemas offered to create-session: a valid one (with a type tag in upper
\* case), and invalid ones of every kind validateSchema rejects
ValidSchemas ==
  { Obj([k \in {K_a, K_Url} |-> IF k = K_a THEN Str(S_email) ELSE Str(<<"U","R","L">>)]) }

InvalidSchemas ==
  { Undefined, Null, Str(S_string), Arr(<<Str(S_string)>>), Obj(EmptyObject),
    Obj([k \in {K_a} |-> Str(<<"t","e","x","t">>)]),
    Obj([k \in {K_a, K_b} |-> IF k = K_a THEN Str(S_string) ELSE Num(5)]) }

Schemas == ValidSchemas \cup InvalidSchemas

\* messages of send-message: an empty one and a non-empty one
Messages == {Str(<<>>), Str(M_hi)}

\* thresholds passed to cleanupExpiredSessions, in minutes
MaxAges == {0, 1}

\* a {key, value} record of form_data; an absent property is left out
Field(k, v) == Obj([p \in {"key", "value"} |-> IF p = "key" THEN k ELSE v])
FieldNoKey(v) == Obj([p \in {"value"} |-> v])
FieldNoValue(k) == Obj([p \in {"key"} |-> k])

Fields ==
  { Field(Str(K_a), Str(V_x)), Field(Str(K_a), Str(V_y)),
    Field(Str(K_Url), Str(V_x)), Field(Str(K_Url), Str(V_https_x)),
    Field(Str(K_Url), Str(V_httpbin)),
    Field(Str(<<>>), Str(V_x)), Field(Str(K_b), Str(<<>>)),
    FieldNoKey(Str(V_x)), FieldNoValue(Str(K_b)), Null }

RECURSIVE SeqsUpTo(_, _)
SeqsUpTo(S, n) ==
  IF n = 0 THEN {<<>>}
  ELSE LET shorter == SeqsUpTo(S, n - 1)
       IN shorter \cup {Append(s, x) : s \in {q \in shorter : Len(q) = n - 1}, x \in S}

\* flat key-value objects of the legacy protocol
LegacyMaps ==
  { EmptyObject,
    [k \in {K_b} |-> Str(<<>>)],
    [k \in {K_a, K_Url} |-> Str(V_x)],
    [k \in {K_a, K_b} |-> Str(V_y)] }

\* a parsed payload {ai_message, form_data}
Payload(fd) == Obj([p \in {"ai_message", "form_data"} |->
                      IF p = "ai_message" THEN Str(M_ok) ELSE fd])

\* what JSON.parse can give for the texts the remote model sends
ParsedValues ==
  {Payload(Arr(s)) : s \in SeqsUpTo(Fields, MaxFields)}
    \cup {Payload(Obj(m)) : m \in LegacyMaps}
    \cup { Payload(Str(V_x)), Payload(Null),
           Obj([p \in {"ai_message"} |-> Str(M_ok)]),
           Null, Num(42), Str(M_hi) }

\* what chat.sendMessage can do: reject with an error, or resolve with a
\* response whose text is absent, unparsable, or parses to a JSON value
Rejected(e, q, s) == [kind |-> "reject", isError |-> e, quota |-> q, safety |-> s]
Json(j) == [kind |-> "json", text |-> Str(IF j = Null THEN T_null ELSE T_json), parsed |-> j]

Outcomes ==
  { Rejected(e, q, s) : e \in BOOLEAN, q \in BOOLEAN, s \in BOOLEAN }
    \cup { [kind |-> "notext", text |-> t] : t \in {Undefined, Str(<<>>)} }
    \cup { [kind |-> "garbled", text |-> Str(T_garbled)] }
    \cup { Json(j) : j \in ParsedValues }

\* the outcomes the server's state machine is explored with: an error, a
\* plain string, and two extractions for one key
TurnOutcomes ==
  { Rejected(TRUE, FALSE, FALSE),
    Json(Str(M_hi)),
    Json(Payload(Arr(<<Field(Str(K_a), Str(V_x))>>))),
    Json(Payload(Arr(<<Field(Str(K_a), Str(V_y))>>))) }

\* the outcomes the sweep and the summaries are explored with
FewOutcomes == { Json(Payload(Arr(<<Field(Str(K_a), Str(V_x))>>))) }

-----------------------------------------------------------------------------
(* Conversation gateway (AIService.sendMessage) *)

\* (the errors AIService.sendMessage raises itself, "Chat instance and message
\* are required" and "No response received from AI", name neither quota nor
\* safety, so the outer catch turns them into the generic message)
E_quota == "AI service quota exceeded. Please try again later."
E_safety == "Message flagged by safety filters. Please rephrase your message."
E_generic == "Failed to get AI response. Please try again."
E_invalidSchema == "Invalid schema format"
E_notFound == "Session not found"

\* how a call ends: it throws (rejects), returns (resolves), or is suspended
Throw(msg) == [st |-> "threw", value |-> msg]
Return(v) == [st |-> "returned", value |-> v]
Pending == [st |-> "pending", value |-> "chat.sendMessage"]

S_http == <<"h","t","t","p">>
S_https_prefix == <<"h","t","t","p","s",":","/","/">>
S_profile == <<"p","r","o","f","i","l","e">>
S_link == <<"l","i","n","k">>
S_website == <<"w","e","b","s","i","t","e">>

\* the body of parsedResponse.form_data.forEach: a field whose key names a
\* URL gets https:// in front of a value that does not start with http
autoFormat(field) ==
  IF Truthy(Get(field, "key")) /\ Truthy(Get(field, "value"))
  THEN LET fieldLower == ToLowerCase(Get(field, "key").v)
       IN IF Includes(fieldLower, S_url) \/ Includes(fieldLower, S_profile)
             \/ Includes(fieldLower, S_link) \/ Includes(fieldLower, S_website)
          THEN IF ~StartsWith(Get(field, "value").v, S_http)
               THEN Obj([field.v EXCEPT !["value"] = Str(S_https_prefix \o @.v)])
               ELSE field
          ELSE field
  ELSE field

\* reading a property of null or undefined raises a TypeError
Raises(x) == x.t \in {"null", "undefined"}

\* the inner try of AIService.sendMessage: JSON.parse, the URL pass, and the
\* degraded result of the catch
parseResponse(o) ==
  LET degraded == Obj([p \in {"ai_message", "form_data"} |->
                         IF p = "ai_message" THEN o.text ELSE Arr(<<>>)])
  IN IF o.kind = "garbled" THEN degraded
     ELSE LET parsedResponse == o.parsed
          IN IF Raises(parsedResponse) THEN degraded
             ELSE LET fd == Get(parsedResponse, "form_data")
                  IN IF Truthy(fd) /\ IsArray(fd)
                     THEN IF \E i \in 1..Len(fd.v) : Raises(fd.v[i])
                          THEN degraded
                          ELSE Obj([parsedResponse.v EXCEPT !["form_data"] =
                                      Arr([i \in 1..Len(fd.v) |-> autoFormat(fd.v[i])])])
                     ELSE parsedResponse

\* the outer catch: the error raised to the caller
mapError(isError, quota, safety) ==
  IF isError /\ quota THEN Throw(E_quota)
  ELSE IF isError /\ safety THEN Throw(E_safety)
  ELSE Throw(E_generic)

\* variant of aiSendMessage: a text that JSON.parse rejects fails the call
aiSendMessageParseFails(o) ==
  IF o.kind = "reject" THEN mapError(o.isError, o.quota, o.safety)
  ELSE IF ~Truthy(o.text) THEN mapError(TRUE, FALSE, FALSE)
  ELSE IF o.kind = "garbled" THEN mapError(TRUE, FALSE, FALSE)
  ELSE Return(parseResponse(o))

\* AIService.sendMessage once chat.sendMessage has settled with outcome o
aiSendMessage(o) ==
  IF o.kind = "reject" THEN mapError(o.isError, o.quota, o.safety)
  ELSE IF ~Truthy(o.text) THEN mapError(TRUE, FALSE, FALSE)
  ELSE Return(parseResponse(o))

-----------------------------------------------------------------------------
(* Form-data accumulator (SessionService.sendMessage, after the await) *)

E_typeError == "TypeError"

\* variant of mergeField: a key that already has a value keeps it
mergeFieldKeepFirst(acc, field) ==
  IF Truthy(Get(field, "key")) /\ Truthy(Get(field, "value"))
       /\ Get(field, "key").v \notin DOMAIN acc
  THEN SetProp(acc, Get(field, "key").v, Get(field, "value"))
  ELSE acc

\* variant of mergeField: a value is appended to the one the key already has
mergeFieldConcat(acc, field) ==
  IF Truthy(Get(field, "key")) /\ Truthy(Get(field, "value"))
  THEN SetProp(acc, Get(field, "key").v,
               IF Get(field, "key").v \in DOMAIN acc
               THEN Str(acc[Get(field, "key").v].v \o Get(field, "value").v)
               ELSE Get(field, "value"))
  ELSE acc

\* the body of response.form_data.forEach
mergeField(acc, field) ==
  IF Truthy(Get(field, "key")) /\ Truthy(Get(field, "value"))
  THEN SetProp(acc, Get(field, "key").v, Get(field, "value"))
  ELSE acc

\* response.form_data.forEach(...): the records in sequence order; reading
\* field.key of a null record raises and leaves the earlier writes in place
RECURSIVE mergeFields(_, _)
mergeFields(acc, fields) ==
  IF fields = <<>> THEN [acc |-> acc, raised |-> FALSE]
  ELSE IF Raises(Head(fields)) THEN [acc |-> acc, raised |-> TRUE]
  ELSE mergeFields(mergeField(acc, Head(fields)), Tail(fields))

\* variant of ObjectAssign: the target is replaced by the source
ObjectAssignReplaces(target, source) == source

\* variant of ObjectAssign: on a collision the target keeps its value
ObjectAssignKeepsTarget(target, source) ==
  [k \in (DOMAIN target) \cup (DOMAIN source) |->
     IF k \in DOMAIN target THEN target[k] ELSE source[k]]

\* Object.assign(target, source)
ObjectAssign(target, source) ==
  [k \in (DOMAIN target) \cup (DOMAIN source) |->
     IF k \in DOMAIN source THEN source[k] ELSE target[k]]

\* variant of Structured: the turn's own result instead of the accumulated data
StructuredTurnOnly(response, acc) == response

\* { ai_message: response.ai_message, form_data: { ...accumulated } }
Structured(response, acc) ==
  Obj([p \in {"ai_message", "form_data"} |->
         IF p = "ai_message" THEN Get(response, "ai_message") ELSE Obj(acc)])

\* variant of processResponse: a plain string starts the form over
processResponseStringResets(acc, response) ==
  IF TypeOf(response) = "string" THEN [acc |-> EmptyObject, r |-> Return(response)]
  ELSE IF Raises(response) THEN [acc |-> acc, r |-> Throw(E_typeError)]
  ELSE LET fd == Get(response, "form_data")
       IN IF Truthy(fd) /\ IsArray(fd)
          THEN LET m == mergeFields(acc, fd.v)
               IN [acc |-> m.acc,
                   r |-> IF m.raised THEN Throw(E_typeError)
                         ELSE Return(Structured(response, m.acc))]
          ELSE IF Truthy(fd) /\ TypeOf(fd) = "object" /\ ~IsArray(fd)
          THEN LET merged == ObjectAssign(acc, fd.v)
               IN [acc |-> merged, r |-> Return(Structured(response, merged))]
          ELSE [acc |-> acc, r |-> Return(response)]

\* lines 47-85: the accumulated data after the turn and what the call returns
processResponse(acc, response) ==
  IF TypeOf(response) = "string" THEN [acc |-> acc, r |-> Return(response)]
  ELSE IF Raises(response) THEN [acc |-> acc, r |-> Throw(E_typeError)]
  ELSE LET fd == Get(response, "form_data")
       IN IF Truthy(fd) /\ IsArray(fd)
          THEN LET m == mergeFields(acc, fd.v)
               IN [acc |-> m.acc,
                   r |-> IF m.raised THEN Throw(E_typeError)
                         ELSE Return(Structured(response, m.acc))]
          ELSE IF Truthy(fd) /\ TypeOf(fd) = "object" /\ ~IsArray(fd)
          THEN LET merged == ObjectAssign(acc, fd.v)
               IN [acc |-> merged, r |-> Return(Structured(response, merged))]
          ELSE [acc |-> acc, r |-> Return(response)]

-----------------------------------------------------------------------------
(* Session store (SessionService) *)

MsPerMinute == 1000 * 60
\* the clock is read once a minute
TickMs == MsPerMinute

\* read-only accessors
hasSession(sessionId) == sessionId \in DOMAIN sessions
getSessionCount == Cardinality(DOMAIN sessions)
getAllSessionIds == DOMAIN sessions

\* the accumulated form data stored for a session
Accumulated(sessionId) == objects[sessions[sessionId].accumulatedFormData]

\* variant of newAccumulator: every session is given the same object
sharedAccumulator(sessionId) == 1

\* the object the literal {} of createSession allocates: a fresh one per call
newAccumulator(sessionId) == sessionId

\* the record createSession stores
newSession(sessionId, schema, chat) ==
  [id |-> sessionId, schema |-> schema, chat |-> chat, createdAt |-> now,
   accumulatedFormData |-> newAccumulator(sessionId)]

\* objects still referenced by a session, a suspended call or a kept summary
Live(sess, cls, hld) ==
  {sess[i].accumulatedFormData : i \in DOMAIN sess}
    \cup {c.accumulatedFormData : c \in BagToSet(cls)} \cup {h.accumulatedFormData : h \in hld}

Collect(objs, sess, cls, hld) ==
  [r \in (DOMAIN objs) \cap Live(sess, cls, hld) |-> objs[r]]

Remove(f, S) == [x \in (DOMAIN f) \ S |-> f[x]]

\* variant of isExpired: a session whose age equals the threshold expires too
isExpiredAtThreshold(createdAt, maxAgeMinutes) ==
  (now - createdAt) >= maxAgeMinutes * MsPerMinute

\* the test of the sweep: ageMinutes = (now - createdAt) / (1000 * 60) and
\* ageMinutes > maxAgeMinutes, with the division moved to the other side
isExpired(createdAt, maxAgeMinutes) ==
  (now - createdAt) > maxAgeMinutes * MsPerMinute

Emit(ev, data) == [event |-> ev, data |-> data]

Greeting == "Hello! I'm here to help you fill out this form. Let's get started!"

\* AIService.getInitialMessage
getInitialMessage ==
  Obj([p \in {"ai_message", "form_data"} |->
         IF p = "ai_message" THEN Greeting ELSE Arr(<<>>)])

\* a || b
Or(a, b) == IF Truthy(a) THEN a ELSE b

-----------------------------------------------------------------------------
(* Singletons (singleton.service.js) *)

E_keyRequired == "GEMINI_API_KEY environment variable is required"
E_validKey == "Valid Google AI API key is required"

K_placeholder == <<"Y","O","U","R","_","A","P","I","_","K","E","Y">>
K_key == <<"k","e","y">>

\* what process.env.GEMINI_API_KEY can hold when the process starts
ApiKeys == {Undefined, Str(<<>>), Str(K_placeholder), Str(K_key)}

\* the module right after it is loaded. heap: the instances constructed so
\* far, an instance being known by its position; a SessionService carries the
\* gateway it was given and the identifiers in its sessions Map.
Loaded(apiKey) ==
  [apiKey |-> apiKey, aiServiceInstance |-> Null, sessionServiceInstance |-> Null,
   heap |-> <<>>]

\* new AIService(apiKey)
newAIService(sv) ==
  IF ~Truthy(sv.apiKey) \/ sv.apiKey = Str(K_placeholder)
  THEN [sv |-> sv, r |-> Throw(E_validKey)]
  ELSE [sv |-> [sv EXCEPT !.heap = Append(@, [class |-> "AIService"])],
        r |-> Return(Len(sv.heap) + 1)]

getAIService(sv) ==
  IF ~Truthy(sv.aiServiceInstance)
  THEN IF ~Truthy(sv.apiKey)
       THEN [sv |-> sv, r |-> Throw(E_keyRequired)]
       ELSE LET made == newAIService(sv)
            IN IF made.r.st = "threw" THEN made
               ELSE [sv |-> [made.sv EXCEPT !.aiServiceInstance = Num(made.r.value)],
                     r |-> made.r]
  ELSE [sv |-> sv, r |-> Return(sv.aiServiceInstance.v)]

\* new SessionService(aiService)
newSessionService(sv, aiService) ==
  [sv |-> [sv EXCEPT !.heap = Append(@, [class |-> "SessionService",
                                         aiService |-> aiService, sessions |-> {}])],
   r |-> Return(Len(sv.heap) + 1)]

\* variant of getSessionService: every call constructs a new instance
getSessionServiceAlwaysNew(sv) ==
  LET ai == getAIService(sv)
  IN IF ai.r.st = "threw" THEN ai
     ELSE LET made == newSessionService(ai.sv, ai.r.value)
          IN [sv |-> [made.sv EXCEPT !.sessionServiceInstance = Num(made.r.value)],
              r |-> made.r]

getSessionService(sv) ==
  IF ~Truthy(sv.sessionServiceInstance)
  THEN LET ai == getAIService(sv)
       IN IF ai.r.st = "threw" THEN ai
          ELSE LET made == newSessionService(ai.sv, ai.r.value)
               IN [sv |-> [made.sv EXCEPT !.sessionServiceInstance = Num(made.r.value)],
                   r |-> made.r]
  ELSE [sv |-> sv, r |-> Return(sv.sessionServiceInstance.v)]

resetServices(sv) ==
  [sv EXCEPT !.aiServiceInstance = Null, !.sessionServiceInstance = Null]

areServicesReady(sv) ==
  Truthy(sv.aiServiceInstance) /\ Truthy(sv.sessionServiceInstance)

initializeServices(sv) ==
  LET ai == getAIService(sv)
  IN IF ai.r.st = "threw" THEN [sv |-> ai.sv, r |-> Return(FALSE)]
     ELSE LET ss == getSessionService(ai.sv)
          IN IF ss.r.st = "threw" THEN [sv |-> ss.sv, r |-> Return(FALSE)]
             ELSE [sv |-> ss.sv, r |-> Return(TRUE)]

\* the module once server.js has started: getSessionService() at start-up
\* returned (the process exits otherwise)
Booted == getSessionService(Loaded(Str(K_key))).sv

Fresh ==
  /\ sessions = <<>>
  /\ objects = <<>>
  /\ usedIds = {}
  /\ chats = 0
  /\ now = 0
  /\ calls = EmptyBag
  /\ held = {}
  /\ ret = [op |-> "init"]
  /\ out = <<>>
  /\ gw = <<>>
  /\ services = Booted

Init == Fresh /\ vcase = [pc |-> "off"]

\* variant of uuidv4: the generator repeats the identifier it gave last
uuidRepeats == IF usedIds = {} THEN Cardinality(usedIds) + 1 ELSE Cardinality(usedIds)

\* uuidv4(): an identifier never handed out before. Identifiers are numbered
\* in the order they are handed out.
uuidv4 == Cardinality(usedIds) + 1

\* create-session handler (server.js) around SessionService.createSession
CreateSession(schema) ==
  /\ IF ~validateSchema(schema)
     THEN /\ ret' = [op |-> "createSession", r |-> Throw(E_invalidSchema)]
          /\ gw' = <<"validateSchema">>
          /\ out' = <<Emit("error", [message |-> E_invalidSchema])>>
          /\ UNCHANGED <<sessions, objects, usedIds, chats>>
     ELSE \E sessionId \in {uuidv4} \cap SessionIds :
          /\ chats' = chats + 1
          /\ usedIds' = usedIds \cup {sessionId}
          /\ sessions' = SetProp(sessions, sessionId, newSession(sessionId, schema, chats + 1))
          /\ objects' = SetProp(objects, newAccumulator(sessionId), EmptyObject)
          /\ ret' = [op |-> "createSession", r |-> Return(sessionId)]
          /\ gw' = <<"validateSchema", "createChat">>
          /\ out' = <<Emit("session-created",
                           [sessionId |-> sessionId,
                            initialMessage |-> Get(getInitialMessage, "ai_message"),
                            formData |-> Or(Get(getInitialMessage, "form_data"),
                                            Obj(EmptyObject))])>>
  /\ UNCHANGED <<now, calls, held, vcase, services>>

\* the call suspended in chat.sendMessage: what it keeps of the session
Call(sessionId) ==
  [sessionId |-> sessionId, chat |-> sessions[sessionId].chat,
   accumulatedFormData |-> sessions[sessionId].accumulatedFormData]

\* sendMessage up to the await: the lookup of SessionService.sendMessage, then
\* the argument check of AIService.sendMessage, then chat.sendMessage; how far
\* the call gets and which gateway methods it has invoked
\* variant of preflight: the gateway is invoked before the session is looked up
preflightGatewayFirst(sessionId, message) ==
  IF ~Truthy(message)
  THEN [r |-> mapError(TRUE, FALSE, FALSE), gw |-> <<"aiService.sendMessage">>]
  ELSE IF ~hasSession(sessionId)
  THEN [r |-> Throw(E_notFound), gw |-> <<"aiService.sendMessage">>]
  ELSE [r |-> Pending, gw |-> <<"aiService.sendMessage", "chat.sendMessage">>]

preflight(sessionId, message) ==
  IF ~hasSession(sessionId)
  THEN [r |-> Throw(E_notFound), gw |-> <<>>]
  ELSE IF ~Truthy(message)
  THEN [r |-> mapError(TRUE, FALSE, FALSE), gw |-> <<"aiService.sendMessage">>]
  ELSE [r |-> Pending, gw |-> <<"aiService.sendMessage", "chat.sendMessage">>]

\* send-message handler up to the await. A call that fails before the network
\* round trip runs to the end of the handler in the same step.
SendMessage(sessionId, message) ==
  /\ LET p == preflight(sessionId, message)
     IN /\ ret' = [op |-> "sendMessage", sessionId |-> sessionId, r |-> p.r]
        /\ gw' = p.gw
        /\ IF p.r.st = "threw"
           THEN /\ out' = <<Emit("typing", TRUE), Emit("typing", FALSE),
                            Emit("error", [message |-> p.r.value])>>
                /\ UNCHANGED calls
           ELSE /\ BagCardinality(calls) < MaxInflight
                /\ calls' = calls (+) SetToBag({Call(sessionId)})
                /\ out' = <<Emit("typing", TRUE)>>
  /\ UNCHANGED <<sessions, objects, usedIds, chats, now, held, vcase, services>>

\* variant of responseEvents: the typing indicator is not switched off
responseEventsStillTyping(response) ==
  LET aiMessage == IF TypeOf(response) = "string" THEN response
                   ELSE Get(response, "ai_message")
      formData == IF TypeOf(response) = "object" THEN Get(response, "form_data")
                  ELSE Obj(EmptyObject)
  IN <<Emit("message-response", [response |-> aiMessage,
                                 formData |-> Or(formData, Obj(EmptyObject))])>>

\* what the handler emits for the value sendMessage resolved with
responseEvents(response) ==
  LET aiMessage == IF TypeOf(response) = "string" THEN response
                   ELSE Get(response, "ai_message")
      formData == IF TypeOf(response) = "object" THEN Get(response, "form_data")
                  ELSE Obj(EmptyObject)
  IN <<Emit("typing", FALSE),
       Emit("message-response", [response |-> aiMessage,
                                 formData |-> Or(formData, Obj(EmptyObject))])>>

\* variant of turn: once a session holds data, what a later result carries is
\* returned but not kept
turnFirstArrivalWins(acc, o) ==
  LET raw == aiSendMessage(o)
  IN IF raw.st = "threw" THEN [acc |-> acc, r |-> raw]
     ELSE IF acc = EmptyObject THEN processResponse(acc, raw.value)
     ELSE [acc |-> acc, r |-> processResponse(acc, raw.value).r]

\* SessionService.sendMessage from the await on, for the accumulated data acc
\* and the outcome o of chat.sendMessage
turn(acc, o) ==
  LET raw == aiSendMessage(o)
  IN IF raw.st = "threw" THEN [acc |-> acc, r |-> raw]
     ELSE processResponse(acc, raw.value)

\* variant of GatewayReturn: a result that arrives for a session that is gone
\* stores the session again
GatewayReturnRestores(c, o) ==
  /\ BagIn(c, calls)
  /\ LET res == turn(objects[c.accumulatedFormData], o)
     IN /\ calls' = calls (-) SetToBag({c})
        /\ sessions' = SetProp(sessions, c.sessionId,
                               [id |-> c.sessionId, schema |-> Null, chat |-> c.chat,
                                createdAt |-> now,
                                accumulatedFormData |-> c.accumulatedFormData])
        /\ objects' = Collect([objects EXCEPT ![c.accumulatedFormData] = res.acc],
                              sessions', calls', held)
        /\ ret' = [op |-> "gatewayReturn", sessionId |-> c.sessionId,
                   accumulatedFormData |-> c.accumulatedFormData,
                   raw |-> aiSendMessage(o), r |-> res.r]
        /\ out' = IF res.r.st = "threw"
                  THEN <<Emit("typing", FALSE), Emit("error", [message |-> res.r.value])>>
                  ELSE responseEvents(res.r.value)
  /\ gw' = <<>>
  /\ UNCHANGED <<usedIds, chats, now, held, vcase, services>>

\* chat.sendMessage settles with outcome o: the rest of AIService.sendMessage,
\* of SessionService.sendMessage and of the send-message handler
GatewayReturn(c, o) ==
  /\ BagIn(c, calls)
  /\ LET res == turn(objects[c.accumulatedFormData], o)
     IN /\ calls' = calls (-) SetToBag({c})
        /\ objects' = Collect([objects EXCEPT ![c.accumulatedFormData] = res.acc],
                              sessions, calls', held)
        /\ ret' = [op |-> "gatewayReturn", sessionId |-> c.sessionId,
                   accumulatedFormData |-> c.accumulatedFormData,
                   raw |-> aiSendMessage(o), r |-> res.r]
        /\ out' = IF res.r.st = "threw"
                  THEN <<Emit("typing", FALSE), Emit("error", [message |-> res.r.value])>>
                  ELSE responseEvents(res.r.value)
  /\ gw' = <<>>
  /\ UNCHANGED <<sessions, usedIds, chats, now, held, vcase, services>>

\* variant of deleteSession: the result of Map.delete is not returned
deleteSessionAlwaysTrue(sessionId) ==
  /\ sessions' = Remove(sessions, {sessionId})
  /\ objects' = Collect(objects, sessions', calls, held)
  /\ ret' = [op |-> "deleteSession", sessionId |-> sessionId, r |-> Return(TRUE)]

\* SessionService.deleteSession: Map.prototype.delete
deleteSession(sessionId) ==
  /\ sessions' = Remove(sessions, {sessionId})
  /\ objects' = Collect(objects, sessions', calls, held)
  /\ ret' = [op |-> "deleteSession", sessionId |-> sessionId,
             r |-> Return(sessionId \in DOMAIN sessions)]

\* end-session handler
EndSession(sessionId) ==
  /\ deleteSession(sessionId)
  /\ out' = IF ret'.r.value
            THEN <<Emit("session-ended", Undefined)>>
            ELSE <<Emit("error", [message |-> E_notFound])>>
  /\ gw' = <<>>
  /\ UNCHANGED <<usedIds, chats, now, calls, held, vcase, services>>

\* the events a client can send
SocketEvents == {"create-session", "send-message", "end-session"}

\* variant of NoPayload: the payload is read outside the handler's try, so
\* nothing is sent to the client
NoPayloadUncaught(event) ==
  /\ event \in {"create-session", "send-message", "end-session"}
  /\ ret' = [op |-> "handler", event |-> event, r |-> Throw(E_typeError)]
  /\ out' = <<>>
  /\ gw' = <<>>
  /\ UNCHANGED <<sessions, objects, usedIds, chats, now, calls, held, vcase, services>>

\* a handler run on an event that carries no payload: data.schema or
\* data.sessionId raises a TypeError inside the handler's try, in send-message
\* before typing:true is emitted
NoPayload(event) ==
  /\ event \in SocketEvents
  /\ ret' = [op |-> "handler", event |-> event, r |-> Throw(E_typeError)]
  /\ out' = IF event = "send-message"
            THEN <<Emit("typing", FALSE), Emit("error", [message |-> E_typeError])>>
            ELSE <<Emit("error", [message |-> E_typeError])>>
  /\ gw' = <<>>
  /\ UNCHANGED <<sessions, objects, usedIds, chats, now, calls, held, vcase, services>>

\* SessionService.getSessionInfo
getSessionInfo(sessionId) ==
  IF hasSession(sessionId)
  THEN Obj([id |-> sessions[sessionId].id,
            schema |-> sessions[sessionId].schema,
            createdAt |-> sessions[sessionId].createdAt,
            accumulatedFormData |-> sessions[sessionId].accumulatedFormData])
  ELSE Null

\* a call of getSessionInfo whose caller keeps the summary it got (seen: what
\* accumulatedFormData held when the summary was returned)
GetSessionInfo(sessionId) ==
  /\ Cardinality(held) < MaxHeld
  /\ LET info == getSessionInfo(sessionId)
     IN /\ ret' = [op |-> "getSessionInfo", sessionId |-> sessionId, r |-> Return(info)]
        /\ held' = IF info = Null THEN held
                   ELSE held \cup {[id |-> sessionId,
                                    accumulatedFormData |-> info.v.accumulatedFormData,
                                    seen |-> objects[info.v.accumulatedFormData]]}
  /\ out' = <<>>
  /\ gw' = <<>>
  /\ UNCHANGED <<sessions, objects, usedIds, chats, now, calls, vcase, services>>

\* the caller writes a property into the accumulatedFormData of a summary
WriteSummary(h) ==
  /\ h \in held
  /\ objects' = [objects EXCEPT ![h.accumulatedFormData] = SetProp(@, K_b, Str(V_y))]
  /\ ret' = [op |-> "writeSummary", sessionId |-> h.id]
  /\ out' = <<>>
  /\ gw' = <<>>
  /\ UNCHANGED <<sessions, usedIds, chats, now, calls, held, vcase, services>>

\* the caller lets go of a summary
DropSummary(h) ==
  /\ h \in held
  /\ held' = held \ {h}
  /\ objects' = Collect(objects, sessions, calls, held')
  /\ ret' = [op |-> "dropSummary", sessionId |-> h.id]
  /\ out' = <<>>
  /\ gw' = <<>>
  /\ UNCHANGED <<sessions, usedIds, chats, now, calls, vcase, services>>

\* SessionService.cleanupExpiredSessions
CleanupExpiredSessions(maxAgeMinutes) ==
  /\ LET expiredSessions ==
           {sessionId \in DOMAIN sessions :
              isExpired(sessions[sessionId].createdAt, maxAgeMinutes)}
     IN /\ sessions' = Remove(sessions, expiredSessions)
        /\ ret' = [op |-> "cleanupExpiredSessions", maxAgeMinutes |-> maxAgeMinutes,
                   r |-> Return(Cardinality(expiredSessions))]
  /\ objects' = Collect(objects, sessions', calls, held)
  /\ out' = <<>>
  /\ gw' = <<>>
  /\ UNCHANGED <<usedIds, chats, now, calls, held, vcase, services>>

\* time passes
Tick ==
  /\ now < MaxTicks * TickMs
  /\ now' = now + TickMs
  /\ ret' = [op |-> "tick"]
  /\ out' = <<>>
  /\ gw' = <<>>
  /\ UNCHANGED <<sessions, objects, usedIds, chats, calls, held, vcase, services>>

-----------------------------------------------------------------------------
(* The server: the three socket handlers and the gateway's answers *)

Next ==
  \/ \E schema \in Schemas : CreateSession(schema)
  \/ \E sessionId \in SessionIds, message \in Messages : SendMessage(sessionId, message)
  \/ \E c \in BagToSet(calls), o \in TurnOutcomes : GatewayReturn(c, o)
  \/ \E sessionId \in SessionIds : EndSession(sessionId)

Spec == Init /\ [][Next]_vars

(* The server as a client sees it: events with or without a payload, and *)
(* gateway calls that settle sooner or later *)

ServerNext ==
  \/ \E schema \in Schemas : CreateSession(schema)
  \/ \E sessionId \in SessionIds, message \in Messages : SendMessage(sessionId, message)
  \/ \E c \in BagToSet(calls), o \in TurnOutcomes : GatewayReturn(c, o)
  \/ \E sessionId \in SessionIds : EndSession(sessionId)
  \/ \E event \in SocketEvents : NoPayload(event)

ServerSpec == Init /\ [][ServerNext]_vars

(* The typing indicator: messages, and round trips that settle sooner or *)
(* later with a failure or a plain answer *)

TypingOutcomes == {Rejected(TRUE, FALSE, FALSE), Json(Str(M_hi))}

TypingNext ==
  \/ \E schema \in ValidSchemas : CreateSession(schema)
  \/ \E sessionId \in SessionIds, message \in Messages : SendMessage(sessionId, message)
  \/ \E c \in BagToSet(calls), o \in TypingOutcomes : GatewayReturn(c, o)
  \/ \E sessionId \in SessionIds : EndSession(sessionId)
  \/ NoPayload("send-message")

\* the round trip of every suspended call comes to an end
Settles ==
  \A sessionId \in SessionIds :
    WF_vars(\E c \in BagToSet(calls), o \in TypingOutcomes :
              c.sessionId = sessionId /\ GatewayReturn(c, o))

TypingSpec == Init /\ [][TypingNext]_vars /\ Settles

(* The store with its sweep, called from time to time *)

SweepNext ==
  \/ \E schema \in ValidSchemas : CreateSession(schema)
  \/ \E sessionId \in SessionIds, message \in Messages : SendMessage(sessionId, message)
  \/ \E c \in BagToSet(calls), o \in FewOutcomes : GatewayReturn(c, o)
  \/ \E sessionId \in SessionIds : EndSession(sessionId)
  \/ \E maxAgeMinutes \in MaxAges : CleanupExpiredSessions(maxAgeMinutes)
  \/ Tick

SweepSpec == Init /\ [][SweepNext]_vars

(* The store with a caller that reads summaries *)

InfoNext ==
  \/ \E schema \in ValidSchemas : CreateSession(schema)
  \/ \E sessionId \in SessionIds : SendMessage(sessionId, Str(M_hi))
  \/ \E c \in BagToSet(calls), o \in FewOutcomes : GatewayReturn(c, o)
  \/ \E sessionId \in SessionIds : EndSession(sessionId)
  \/ \E sessionId \in SessionIds : GetSessionInfo(sessionId)
  \/ \E h \in held : WriteSummary(h)
  \/ \E h \in held : DropSummary(h)

InfoSpec == Init /\ [][InfoNext]_vars

-----------------------------------------------------------------------------
(* The singleton module used by a caller, from the moment it is loaded *)

SingletonInit ==
  /\ sessions = <<>>
  /\ objects = <<>>
  /\ usedIds = {}
  /\ chats = 0
  /\ now = 0
  /\ calls = EmptyBag
  /\ held = {}
  /\ ret = [op |-> "init"]
  /\ out = <<>>
  /\ gw = <<>>
  /\ vcase = [pc |-> "off"]
  /\ services \in {Loaded(apiKey) : apiKey \in ApiKeys}

\* a call of a function of the module that returns sv and r
ServiceCall(op, res) ==
  /\ Len(res.sv.heap) <= MaxInstances
  /\ services' = res.sv
  /\ ret' = [op |-> op, r |-> res.r]
  /\ UNCHANGED <<sessions, objects, usedIds, chats, now, calls, held, out, gw, vcase>>

GetAIService == ServiceCall("getAIService", getAIService(services))

GetSessionService == ServiceCall("getSessionService", getSessionService(services))

ResetServices ==
  ServiceCall("resetServices", [sv |-> resetServices(services), r |-> Return(Undefined)])

AreServicesReady ==
  ServiceCall("areServicesReady",
              [sv |-> services, r |-> Return(areServicesReady(services))])

InitializeServices == ServiceCall("initializeServices", initializeServices(services))

\* the identifiers held by the sessions Maps of all instances
AllSessionIds(sv) ==
  UNION {sv.heap[i].sessions : i \in {j \in DOMAIN sv.heap : sv.heap[j].class = "SessionService"}}

\* createSession with a valid schema on an instance a caller got earlier
ServiceCreateSession(i) ==
  /\ i \in DOMAIN services.heap
  /\ services.heap[i].class = "SessionService"
  /\ Cardinality(AllSessionIds(services)) < MaxSessions
  /\ LET sessionId == Cardinality(AllSessionIds(services)) + 1
     IN /\ services' = [services EXCEPT !.heap[i].sessions = @ \cup {sessionId}]
        /\ ret' = [op |-> "createSession", instance |-> i, r |-> Return(sessionId)]
  /\ UNCHANGED <<sessions, objects, usedIds, chats, now, calls, held, out, gw, vcase>>

SingletonNext ==
  \/ GetAIService
  \/ GetSessionService
  \/ ResetServices
  \/ AreServicesReady
  \/ InitializeServices
  \/ \E i \in 1..MaxInstances : ServiceCreateSession(i)

SingletonSpec == SingletonInit /\ [][SingletonNext]_vars

-----------------------------------------------------------------------------
(* The schema validator applied to one candidate schema *)

\* values a schema can give a field: the seven tags, tags in other cases,
\* unknown tags and values that are no strings
TypeValues ==
  {Str(tag) : tag \in validTypes}
    \cup { Str(<<"S","T","R","I","N","G">>), Str(<<"E","m","a","i","L">>),
           Str(<<"U","r","l">>), Str(<<"t","e","x","t">>), Str(<<"u","r","l","s">>),
           Str(<<>>), Num(5), Bool(TRUE), Null, Obj(EmptyObject) }

SchemaInputs ==
  { Undefined, Null, Num(0), Num(5), Bool(TRUE), Str(<<>>), Str(S_string),
    Arr(<<>>), Arr(<<Str(S_string)>>), Obj(EmptyObject) }
    \cup {Obj([k \in {K_a} |-> v]) : v \in TypeValues}
    \cup {Obj([k \in {K_a, K_b} |-> IF k = K_a THEN v ELSE w]) :
            v \in TypeValues, w \in TypeValues}

ValidateInit ==
  /\ Fresh
  /\ vcase \in {[pc |-> "schema", schema |-> s] : s \in SchemaInputs}

Validate ==
  /\ vcase.pc = "schema"
  /\ vcase' = [pc |-> "validated", schema |-> vcase.schema,
               result |-> validateSchema(vcase.schema)]
  /\ UNCHANGED <<sessions, objects, usedIds, chats, now, calls, held, ret, out, gw, services>>

ValidateSpec == ValidateInit /\ [][Validate]_vars

(* One turn of a session applied to accumulated data and a gateway outcome *)

\* accumulated form data a session can hold when a turn's result arrives
AccInputs ==
  { EmptyObject,
    [k \in {K_a} |-> Str(V_x)],
    [k \in {K_a, K_Url} |-> IF k = K_a THEN Str(V_y) ELSE Str(V_https_x)],
    [k \in {K_a, K_b} |-> IF k = K_a THEN Str(V_x) ELSE Str(<<>>)] }

TurnInit ==
  /\ Fresh
  /\ vcase \in {[pc |-> "turn", acc |-> a, outcome |-> o] : a \in AccInputs, o \in Outcomes}

Turn ==
  /\ vcase.pc = "turn"
  /\ vcase' = [pc |-> "settled", acc |-> vcase.acc, outcome |-> vcase.outcome,
               raw |-> aiSendMessage(vcase.outcome),
               res |-> turn(vcase.acc, vcase.outcome)]
  /\ UNCHANGED <<sessions, objects, usedIds, chats, now, calls, held, ret, out, gw, services>>

TurnSpec == TurnInit /\ [][Turn]_vars

(* Several calls on one session, in flight together: request k is the k-th *)
(* that was made, and the results arrive in any order *)

RaceOutcomes ==
  { Rejected(TRUE, FALSE, FALSE),
    Json(Str(M_hi)),
    Json(Payload(Arr(<<Field(Str(K_a), Str(V_x))>>))),
    Json(Payload(Arr(<<Field(Str(K_a), Str(V_y))>>))),
    Json(Payload(Arr(<<Field(Str(K_a), Str(V_x)), Field(Str(K_a), Str(V_y))>>))),
    Json(Payload(Arr(<<Field(Str(K_Url), Str(V_x))>>))),
    Json(Payload(Obj([k \in {K_a, K_Url} |-> Str(V_x)]))) }

\* what the session holds when the calls are made
RaceAccs == {EmptyObject, [k \in {K_b} |-> Str(V_x)]}

\* before: the data held when the calls were made; results[k]: how the round
\* trip of request k ends; order: the requests whose results have arrived, in
\* order of arrival; accs, rets: the data held after, and the value returned
\* at, each arrival
RaceInit ==
  /\ Fresh
  /\ vcase \in {[pc |-> "race", before |-> a, acc |-> a, results |-> rs,
                 order |-> <<>>, accs |-> <<>>, rets |-> <<>>] :
                  a \in RaceAccs, rs \in [1..MaxInflight -> RaceOutcomes]}

\* the result of request k arrives
Arrive(k) ==
  /\ vcase.pc = "race"
  /\ k \in DOMAIN vcase.results
  /\ \A j \in DOMAIN vcase.order : vcase.order[j] # k
  /\ LET res == turn(vcase.acc, vcase.results[k])
     IN vcase' = [vcase EXCEPT !.acc = res.acc,
                               !.order = Append(@, k),
                               !.accs = Append(@, res.acc),
                               !.rets = Append(@, res.r)]
  /\ UNCHANGED <<sessions, objects, usedIds, chats, now, calls, held, ret, out, gw, services>>

RaceNext == \E k \in 1..MaxInflight : Arrive(k)

RaceSpec == RaceInit /\ [][RaceNext]_vars

-----------------------------------------------------------------------------
(* Properties *)

\* a value that is present and non-empty: a string of at least one character
Present(x) == x.t = "string" /\ Len(x.v) >= 1

SameLetter(c, d) ==
  c = d \/ \E i \in 1..Len(UpperChars) : {c, d} = {UpperChars[i], LowerChars[i]}

EqualIgnoringCase(a, b) ==
  Len(a) = Len(b) /\ \A i \in 1..Len(a) : SameLetter(a[i], b[i])

\* a non-empty, non-array mapping whose every value is a string equal, case
\* aside, to one of the seven type tags
SchemaOk(s) ==
  /\ s.t = "object"
  /\ DOMAIN s.v # {}
  /\ \A k \in DOMAIN s.v :
       /\ s.v[k].t = "string"
       /\ \E tag \in validTypes : EqualIgnoringCase(s.v[k].v, tag)

\* C1: a createSession that returns gives an identifier never handed out
\* before; right after it hasSession(id) is true, getSessionCount() is one
\* more than before, and the new session's accumulated form data is empty.
C1_CreateAddsOneEmptySession ==
  [][ (ret'.op = "createSession" /\ ret'.r.st = "returned") =>
        LET id == ret'.r.value
        IN /\ id \notin usedIds
           /\ ~hasSession(id)
           /\ id \in getAllSessionIds'
           /\ getSessionCount' = getSessionCount + 1
           /\ objects'[sessions'[id].accumulatedFormData] = EmptyObject ]_vars

\* a second session has just been created next to one that holds data
C1_Witness ==
  /\ ret.op = "createSession" /\ ret.r.st = "returned"
  /\ Cardinality(DOMAIN sessions) = 2
  /\ \E other \in DOMAIN sessions : other # ret.r.value /\ Accumulated(other) # EmptyObject

\* C2: deleteSession(id) returns true exactly when the record was there and
\* leaves no record for id, every other record being kept; on an id without a
\* record it returns false and changes nothing. end-session emits session-ended
\* in the first case and error "Session not found" in the second.
C2_DeleteIdempotent ==
  [][ ret'.op = "deleteSession" =>
        LET id == ret'.sessionId
        IN /\ ret'.r = Return(id \in DOMAIN sessions)
           /\ id \notin getAllSessionIds'
           /\ getAllSessionIds' = getAllSessionIds \ {id}
           /\ \A other \in DOMAIN sessions' : sessions'[other] = sessions[other]
           /\ IF id \in DOMAIN sessions
              THEN out' = <<Emit("session-ended", Undefined)>>
              ELSE /\ sessions' = sessions
                   /\ objects' = objects
                   /\ out' = <<Emit("error", [message |-> E_notFound])>> ]_vars

\* end-session has been repeated for an identifier that had a session
C2_Witness ==
  /\ ret.op = "deleteSession" /\ ret.r = Return(FALSE)
  /\ ret.sessionId \in usedIds
  /\ out = <<Emit("error", [message |-> E_notFound])>>
  /\ sessions # <<>>

\* C3: a createSession that throws signals the invalid-schema error and
\* changes neither the sessions, nor their accumulated data, nor the number of
\* conversation handles, and does not call createChat; a createSession that
\* returns has stored a schema that passes validation.
C3_InvalidSchemaCreatesNothing ==
  [][ ret'.op = "createSession" =>
        IF ret'.r.st = "threw"
        THEN /\ ret'.r.value = E_invalidSchema
             /\ sessions' = sessions
             /\ objects' = objects
             /\ usedIds' = usedIds
             /\ chats' = chats
             /\ \A i \in 1..Len(gw') : gw'[i] # "createChat"
             /\ out' = <<Emit("error", [message |-> E_invalidSchema])>>
        ELSE SchemaOk(sessions'[ret'.r.value].schema) ]_vars

\* an invalid schema has been refused while a session holds data
C3_Witness ==
  /\ ret.op = "createSession" /\ ret.r = Throw(E_invalidSchema)
  /\ \E id \in DOMAIN sessions : Accumulated(id) # EmptyObject

\* C4: sendMessage with an identifier that has no session (never created,
\* deleted or swept) throws "Session not found", invokes no gateway method,
\* suspends no call and changes no accumulated form data.
C4_UnknownSessionSend ==
  [][ (ret'.op = "sendMessage" /\ ret'.sessionId \notin DOMAIN sessions) =>
        /\ ret'.r = Throw(E_notFound)
        /\ gw' = <<>>
        /\ calls' = calls
        /\ objects' = objects
        /\ sessions' = sessions ]_vars

\* a message was sent to a session that has been removed, while another
\* session holds data
C4_Witness ==
  /\ ret.op = "sendMessage" /\ ret.r = Throw(E_notFound)
  /\ ret.sessionId \in usedIds \ DOMAIN sessions
  /\ \E id \in DOMAIN sessions : Accumulated(id) # EmptyObject

\* C5: when the gateway's result has form_data as a sequence of records, the
\* accumulated data after the turn has, for each key named by a record with a
\* present, non-empty key and value, the value of the last such record, and
\* for every other key the value it had before; no other key appears.
C5_FoldInSequenceOrder ==
  (vcase.pc = "settled" /\ vcase.raw.st = "returned"
     /\ vcase.raw.value.t = "object"
     /\ Get(vcase.raw.value, "form_data").t = "array") =>
    LET fields == Get(vcase.raw.value, "form_data").v
        before == vcase.acc
        after == vcase.res.acc
        Sets(i, k) == /\ Present(Get(fields[i], "key"))
                      /\ Present(Get(fields[i], "value"))
                      /\ Get(fields[i], "key").v = k
        Named == {k \in {Get(fields[i], "key").v :
                           i \in {j \in 1..Len(fields) : Present(Get(fields[j], "key"))}} :
                    \E i \in 1..Len(fields) : Sets(i, k)}
    IN /\ DOMAIN after = (DOMAIN before) \cup Named
       /\ \A k \in DOMAIN after :
            IF k \in Named
            THEN \E i \in 1..Len(fields) :
                   /\ Sets(i, k)
                   /\ \A j \in (i + 1)..Len(fields) : ~Sets(j, k)
                   /\ after[k] = Get(fields[i], "value")
            ELSE after[k] = before[k]

\* a turn whose sequence names one key twice with different values, beside
\* a key the session already held
C5_Witness ==
  /\ vcase.pc = "settled" /\ vcase.raw.st = "returned"
  /\ vcase.raw.value.t = "object"
  /\ Get(vcase.raw.value, "form_data").t = "array"
  /\ LET fields == Get(vcase.raw.value, "form_data").v
     IN /\ Len(fields) = 2
        /\ Present(Get(fields[1], "key")) /\ Present(Get(fields[1], "value"))
        /\ Present(Get(fields[2], "key")) /\ Present(Get(fields[2], "value"))
        /\ Get(fields[1], "key") = Get(fields[2], "key")
        /\ Get(fields[1], "value") # Get(fields[2], "value")
        /\ Get(fields[1], "key").v \in DOMAIN vcase.acc
        /\ \E k \in DOMAIN vcase.acc : k # Get(fields[1], "key").v

\* C6 as stated: whatever sendMessage returns is a plain string or a
\* structured object whose form_data is the accumulated form data.
C6_StringOrStructured ==
  (vcase.pc = "settled" /\ vcase.res.r.st = "returned") =>
    LET v == vcase.res.r.value
    IN \/ v.t = "string"
       \/ v.t = "object" /\ Get(v, "form_data") = Obj(vcase.res.acc)

\* C6 amended: what sendMessage returns is the raw result itself when that is
\* a string; {ai_message, form_data: the accumulated data after the turn} when
\* the raw result's form_data is a sequence or an object; and the raw result
\* itself, with the accumulated data untouched, in every other case.
C6_StringStructuredOrRaw ==
  (vcase.pc = "settled" /\ vcase.raw.st = "returned") =>
    LET raw == vcase.raw.value
        v == vcase.res.r.value
        fd == Get(raw, "form_data")
    IN /\ vcase.res.r.st = "returned"
       /\ IF raw.t = "string" THEN v = raw /\ vcase.res.acc = vcase.acc
          ELSE IF fd.t \in {"array", "object"}
          THEN /\ v.t = "object"
               /\ DOMAIN v.v = {"ai_message", "form_data"}
               /\ v.v["ai_message"] = Get(raw, "ai_message")
               /\ v.v["form_data"] = Obj(vcase.res.acc)
          ELSE v = raw /\ vcase.res.acc = vcase.acc

\* a turn that returned a structured object carrying data the session held
\* before the turn and data the turn added
C6_Witness ==
  /\ vcase.pc = "settled" /\ vcase.res.r.st = "returned"
  /\ vcase.res.r.value.t = "object"
  /\ Get(vcase.res.r.value, "form_data") = Obj(vcase.res.acc)
  /\ vcase.acc # EmptyObject
  /\ vcase.res.acc # vcase.acc

\* C7: the accumulated form data of a summary getSessionInfo returned stays
\* what it was when the summary was returned.
C7_SummaryIsSnapshot ==
  \A h \in held : objects[h.accumulatedFormData] = h.seen

\* C8: cleanupExpiredSessions(maxAgeMinutes) removes exactly the sessions
\* whose age, now minus createdAt, is strictly greater than maxAgeMinutes,
\* keeps the others with their data, and returns the number removed, the
\* decrease of getSessionCount(); no step changes a session's createdAt.
C8_SweepRemovesExactlyTheOld ==
  [][ /\ \A id \in (DOMAIN sessions) \cap (DOMAIN sessions') :
           sessions'[id].createdAt = sessions[id].createdAt
      /\ ret'.op = "cleanupExpiredSessions" =>
           LET old == {id \in DOMAIN sessions :
                         now - sessions[id].createdAt > ret'.maxAgeMinutes * MsPerMinute}
           IN /\ DOMAIN sessions' = (DOMAIN sessions) \ old
              /\ \A id \in DOMAIN sessions' :
                   /\ sessions'[id] = sessions[id]
                   /\ objects'[sessions'[id].accumulatedFormData]
                        = objects[sessions[id].accumulatedFormData]
              /\ ret'.r = Return(Cardinality(old))
              /\ Cardinality(old) = getSessionCount - getSessionCount' ]_vars

\* a sweep removed a session and kept one whose age equals the threshold and
\* which has received data from a message
C8_Witness ==
  /\ ret.op = "cleanupExpiredSessions" /\ ret.r.value >= 1
  /\ \E id \in DOMAIN sessions :
       /\ now - sessions[id].createdAt = ret.maxAgeMinutes * MsPerMinute
       /\ ret.maxAgeMinutes >= 1
       /\ Accumulated(id) # EmptyObject

\* C9: a step of sendMessage for session A, its start or the arrival of the
\* gateway's result, leaves every other session B in the store, with the
\* same record (schema included) and the same accumulated form data.
C9_SessionsIsolated ==
  [][ ret'.op \in {"sendMessage", "gatewayReturn"} =>
        \A B \in DOMAIN sessions :
          B # ret'.sessionId =>
            /\ B \in DOMAIN sessions'
            /\ sessions'[B] = sessions[B]
            /\ objects'[sessions'[B].accumulatedFormData]
                 = objects[sessions[B].accumulatedFormData] ]_vars

\* a result arrived and was merged for one of two sessions holding different
\* data, while another call was in flight
C9_Witness ==
  /\ ret.op = "gatewayReturn" /\ ret.r.st = "returned"
  /\ ret.sessionId \in DOMAIN sessions
  /\ Accumulated(ret.sessionId) # EmptyObject
  /\ \E B \in DOMAIN sessions :
       B # ret.sessionId /\ Accumulated(B) # Accumulated(ret.sessionId)
  /\ calls # EmptyBag

\* C10: validateSchema returns true exactly for the non-empty, non-array
\* mappings whose every value is a string equal, case aside, to one of the
\* seven type tags, and false for everything else.
C10_ValidateSchema ==
  vcase.pc = "validated" =>
    /\ vcase.result \in BOOLEAN
    /\ vcase.result = SchemaOk(vcase.schema)

\* a schema with two fields was accepted, one of its tags not in lower case
C10_Witness ==
  /\ vcase.pc = "validated" /\ vcase.result = TRUE
  /\ Cardinality(DOMAIN vcase.schema.v) = 2
  /\ \E k \in DOMAIN vcase.schema.v : vcase.schema.v[k].v \notin validTypes

\* the positions in a sequence of events that hold the event ev
At(events, ev) == {i \in DOMAIN events : events[i].event = ev}

TypingOn(events) ==
  {i \in DOMAIN events : events[i].event = "typing" /\ events[i].data = TRUE}
TypingOff(events) ==
  {i \in DOMAIN events : events[i].event = "typing" /\ events[i].data = FALSE}

InFlight(sessionId) == \E c \in BagToSet(calls) : c.sessionId = sessionId

\* C11: a step that invokes the gateway has emitted typing:true first; a
\* send-message that ends in the same step (unknown session, refused message)
\* emits typing:false after it, and one that is suspended emits typing:true
\* alone and adds one call in flight; the arrival of a result, good or bad,
\* emits typing:false once and takes one call out of flight; no other step
\* touches the calls in flight. Every call in flight is followed by the
\* arrival of its result with typing:false, when the round trips settle.
C11_TypingBracketsEveryCall ==
  /\ [][ /\ gw' # <<>> /\ ret'.op = "sendMessage" => 1 \in TypingOn(out')
         /\ ret'.op = "sendMessage" =>
              /\ TypingOn(out') = {1}
              /\ IF ret'.r.st = "pending"
                 THEN /\ TypingOff(out') = {}
                      /\ BagCardinality(calls') = BagCardinality(calls) + 1
                      /\ \E c \in BagToSet(calls') : c.sessionId = ret'.sessionId
                 ELSE /\ Cardinality(TypingOff(out')) = 1
                      /\ \A i \in TypingOff(out') : i > 1
                      /\ calls' = calls
         /\ ret'.op = "gatewayReturn" =>
              /\ TypingOn(out') = {}
              /\ TypingOff(out') = {1}
              /\ BagCardinality(calls') = BagCardinality(calls) - 1
         /\ ret'.op \notin {"sendMessage", "gatewayReturn"} =>
              /\ TypingOn(out') = {}
              /\ calls' = calls ]_vars
  /\ \A sessionId \in SessionIds :
       InFlight(sessionId) ~>
         (ret.op = "gatewayReturn" /\ ret.sessionId = sessionId /\ TypingOff(out) = {1})

\* the gateway failed for one call while another call is still in flight
C11_Witness ==
  /\ ret.op = "gatewayReturn" /\ ret.r.st = "threw"
  /\ out = <<Emit("typing", FALSE), Emit("error", [message |-> E_generic])>>
  /\ calls # EmptyBag

\* C12: whenever a handler's call raised (invalid schema, unknown session,
\* refused message, gateway failure, event without payload) the client is sent
\* exactly one error event carrying the error's message and neither
\* session-created nor message-response; an end-session that removed nothing
\* sends the error event too; the arrival of a gateway result sends exactly
\* one of message-response and error; a call that did not raise sends no error.
C12_ErrorsBecomeErrorEvents ==
  /\ (ret.op \in {"createSession", "sendMessage", "gatewayReturn", "handler"}
        /\ ret.r.st = "threw") =>
       /\ Cardinality(At(out, "error")) = 1
       /\ \A i \in At(out, "error") : out[i].data = [message |-> ret.r.value]
       /\ At(out, "message-response") = {}
       /\ At(out, "session-created") = {}
  /\ (ret.op \in {"createSession", "sendMessage", "gatewayReturn"}
        /\ ret.r.st # "threw") => At(out, "error") = {}
  /\ ret.op = "deleteSession" =>
       IF ret.r.value THEN out = <<Emit("session-ended", Undefined)>>
       ELSE out = <<Emit("error", [message |-> E_notFound])>>
  /\ ret.op = "gatewayReturn" =>
       Cardinality(At(out, "message-response")) + Cardinality(At(out, "error")) = 1
  /\ ret.op = "sendMessage" => At(out, "message-response") = {}

\* the gateway's quota-free failure reached a client whose session holds data
C12_Witness ==
  /\ ret.op = "gatewayReturn" /\ ret.r = Throw(E_generic)
  /\ At(out, "error") # {} /\ At(out, "message-response") = {}
  /\ ret.sessionId \in DOMAIN sessions
  /\ Accumulated(ret.sessionId) # EmptyObject

\* C13: a createSession that returned is answered by one session-created
\* event carrying the new identifier, the fixed greeting and formData {}.
C13_SessionCreatedPayload ==
  (ret.op = "createSession" /\ ret.r.st = "returned") =>
    out = <<Emit("session-created",
                 [sessionId |-> ret.r.value,
                  initialMessage |-> Greeting,
                  formData |-> Obj(EmptyObject)])>>

\* the identifiers in the sessions Map of instance i
SessionsOf(sv, i) ==
  IF sv.heap[i].class = "SessionService" THEN sv.heap[i].sessions ELSE {}

\* C14: a getter called while its instance is stored returns that instance
\* and changes nothing; the instance a getter returns is the one stored; no
\* call but resetServices changes a stored instance, and no call takes a
\* session out of an instance, so the sessions created through one call are
\* seen through every later one. While the credential is missing both getters
\* raise, no instance is stored, areServicesReady() is false and
\* initializeServices() returns false.
C14_SingletonsUntilReset ==
  [][ /\ (ret'.op = "getSessionService" /\ Truthy(services.sessionServiceInstance)) =>
           /\ ret'.r = Return(services.sessionServiceInstance.v)
           /\ services' = services
      /\ (ret'.op = "getAIService" /\ Truthy(services.aiServiceInstance)) =>
           /\ ret'.r = Return(services.aiServiceInstance.v)
           /\ services' = services
      /\ (ret'.op = "getSessionService" /\ ret'.r.st = "returned") =>
           /\ services'.sessionServiceInstance = Num(ret'.r.value)
           /\ services'.heap[ret'.r.value].class = "SessionService"
      /\ (ret'.op = "getAIService" /\ ret'.r.st = "returned") =>
           /\ services'.aiServiceInstance = Num(ret'.r.value)
           /\ services'.heap[ret'.r.value].class = "AIService"
      /\ ret'.op # "resetServices" =>
           /\ Truthy(services.sessionServiceInstance) =>
                services'.sessionServiceInstance = services.sessionServiceInstance
           /\ Truthy(services.aiServiceInstance) =>
                services'.aiServiceInstance = services.aiServiceInstance
      /\ \A i \in DOMAIN services.heap :
           /\ i \in DOMAIN services'.heap
           /\ services'.heap[i].class = services.heap[i].class
           /\ SessionsOf(services, i) \subseteq SessionsOf(services', i)
      /\ ~Truthy(services.apiKey) =>
           /\ ret'.op \in {"getAIService", "getSessionService"} => ret'.r.st = "threw"
           /\ services'.aiServiceInstance = Null
           /\ services'.sessionServiceInstance = Null
           /\ ~areServicesReady(services')
           /\ ret'.op = "areServicesReady" => ret'.r = Return(FALSE)
           /\ ret'.op = "initializeServices" => ret'.r = Return(FALSE) ]_vars

\* getSessionService() returned the stored instance, which holds a session
\* created through an earlier call, after a reset had orphaned an older one
C14_Witness ==
  /\ ret.op = "getSessionService" /\ ret.r.st = "returned"
  /\ SessionsOf(services, ret.r.value) # {}
  /\ \E i \in DOMAIN services.heap :
       /\ i < ret.r.value
       /\ services.heap[i].class = "SessionService"

\* the form_data of what the gateway returned, undefined when it raised or
\* returned no object
FormData(raw) ==
  IF raw.st = "returned" /\ raw.value.t = "object"
  THEN Get(raw.value, "form_data") ELSE Undefined

\* record i of the sequence fd names key k with a present key and value
SetsAt(fd, i, k) ==
  /\ Present(Get(fd.v[i], "key"))
  /\ Present(Get(fd.v[i], "value"))
  /\ Get(fd.v[i], "key").v = k

\* the gateway's result carries a value for key k, in either shape
Supplies(raw, k) ==
  LET fd == FormData(raw)
  IN CASE fd.t = "array" -> \E i \in 1..Len(fd.v) : SetsAt(fd, i, k)
       [] fd.t = "object" -> k \in DOMAIN fd.v
       [] OTHER -> FALSE

\* that value: the last one the sequence names for k, or the property k
Supplied(raw, k) ==
  LET fd == FormData(raw)
  IN IF fd.t = "array"
     THEN Get(fd.v[CHOOSE i \in 1..Len(fd.v) :
                     SetsAt(fd, i, k) /\ \A j \in (i + 1)..Len(fd.v) : ~SetsAt(fd, j, k)],
              "value")
     ELSE fd.v[k]

FormKeys == {K_a, K_b, K_Url}

\* C15: with several calls of one session in flight, after each arrival the
\* session holds, for every key, the value supplied by the latest arrival so
\* far that carries the key, whichever request it answers, and what it held
\* when the calls were made for a key no arrival carries; the structured
\* result of each call carries the data held at that call's own arrival.
C15_MergesInArrivalOrder ==
  vcase.pc = "race" =>
    \A j \in DOMAIN vcase.order :
      LET raws == [i \in 1..j |-> aiSendMessage(vcase.results[vcase.order[i]])]
          acc == vcase.accs[j]
          Setters(k) == {i \in 1..j : Supplies(raws[i], k)}
          Last(k) == CHOOSE i \in Setters(k) : \A h \in Setters(k) : h <= i
      IN /\ DOMAIN acc = (DOMAIN vcase.before) \cup {k \in FormKeys : Setters(k) # {}}
         /\ \A k \in DOMAIN acc :
              acc[k] = IF Setters(k) # {} THEN Supplied(raws[Last(k)], k)
                       ELSE vcase.before[k]
         /\ FormData(raws[j]).t \in {"array", "object"} =>
              /\ vcase.rets[j].st = "returned"
              /\ Get(vcase.rets[j].value, "form_data") = Obj(acc)

\* two requests were answered with different values for one key, the answer to
\* the second arrived first, and the session holds the first request's value
C15_Witness ==
  /\ vcase.pc = "race"
  /\ Len(vcase.order) >= 2
  /\ vcase.order[1] = 2 /\ vcase.order[2] = 1
  /\ Supplies(aiSendMessage(vcase.results[1]), K_a)
  /\ Supplies(aiSendMessage(vcase.results[2]), K_a)
  /\ Supplied(aiSendMessage(vcase.results[1]), K_a)
       # Supplied(aiSendMessage(vcase.results[2]), K_a)
  /\ vcase.accs[2][K_a] = Supplied(aiSendMessage(vcase.results[1]), K_a)
  /\ Get(vcase.rets[1].value, "form_data") # Get(vcase.rets[2].value, "form_data")

\* C16: an identifier that was handed out and has no session (it was removed
\* by deleteSession or by the sweep) has none after any step; createSession
\* hands out an identifier never handed out before; the arrival of a result,
\* for a session that is still there or not, changes neither the set of
\* sessions nor getSessionCount().
C16_RemovedStaysRemoved ==
  [][ /\ \A id \in usedIds \ DOMAIN sessions : id \notin getAllSessionIds'
      /\ usedIds \subseteq usedIds'
      /\ getAllSessionIds' \subseteq usedIds'
      /\ (ret'.op = "createSession" /\ ret'.r.st = "returned") =>
           ret'.r.value \notin usedIds
      /\ ret'.op = "gatewayReturn" =>
           /\ getAllSessionIds' = getAllSessionIds
           /\ getSessionCount' = getSessionCount ]_vars

\* the result of a call arrived, with data, after the call's session had been
\* removed and time had passed, while a session created later is in the store
C16_Witness ==
  /\ ret.op = "gatewayReturn" /\ ret.r.st = "returned"
  /\ ret.sessionId \in usedIds \ DOMAIN sessions
  /\ now > 0
  /\ \E id \in DOMAIN sessions : id > ret.sessionId

\* the data the session held just before the j-th arrival
HeldBefore(j) == IF j = 1 THEN vcase.before ELSE vcase.accs[j - 1]

\* what the gateway returned at the j-th arrival
ArrivedRaw(j) == aiSendMessage(vcase.results[vcase.order[j]])

\* C17: at every completion of a sendMessage the session keeps every key it
\* held, and a key is new or has a new value only if the turn's result carries
\* that key, with that value.
C17_MonotonicEnrichment ==
  vcase.pc = "race" =>
    \A j \in DOMAIN vcase.order :
      LET prev == HeldBefore(j)
          cur == vcase.accs[j]
      IN /\ DOMAIN prev \subseteq DOMAIN cur
         /\ \A k \in DOMAIN cur :
              (k \notin DOMAIN prev \/ cur[k] # prev[k]) =>
                /\ Supplies(ArrivedRaw(j), k)
                /\ cur[k] = Supplied(ArrivedRaw(j), k)

\* a second completion gave a key a new value and kept a key that no turn
\* carried
C17_Witness ==
  /\ vcase.pc = "race"
  /\ Len(vcase.order) >= 2
  /\ K_a \in DOMAIN vcase.accs[1]
  /\ vcase.accs[2][K_a] # vcase.accs[1][K_a]
  /\ K_b \in DOMAIN vcase.before
  /\ vcase.accs[2][K_b] = vcase.before[K_b]

\* C18: when the gateway's result has a key-value object as form_data, the
\* session afterwards holds every key of form_data with form_data's value
\* and every other key it held with the value it had, and sendMessage returns
\* {ai_message, form_data} with the result's ai_message and the data held.
C18_LegacyShallowMerge ==
  (vcase.pc = "settled" /\ FormData(vcase.raw).t = "object") =>
    LET fd == FormData(vcase.raw).v
        before == vcase.acc
        after == vcase.res.acc
    IN /\ DOMAIN after = (DOMAIN before) \cup (DOMAIN fd)
       /\ \A k \in DOMAIN fd : after[k] = fd[k]
       /\ \A k \in (DOMAIN before) \ (DOMAIN fd) : after[k] = before[k]
       /\ vcase.res.r.st = "returned"
       /\ vcase.res.r.value.t = "object"
       /\ DOMAIN vcase.res.r.value.v = {"ai_message", "form_data"}
       /\ vcase.res.r.value.v["ai_message"] = Get(vcase.raw.value, "ai_message")
       /\ vcase.res.r.value.v["form_data"] = Obj(after)

\* a legacy result overwrote a key the session held with another value and
\* added a key
C18_Witness ==
  /\ vcase.pc = "settled" /\ FormData(vcase.raw).t = "object"
  /\ \E k \in (DOMAIN vcase.acc) \cap (DOMAIN FormData(vcase.raw).v) :
       vcase.acc[k] # FormData(vcase.raw).v[k]
  /\ (DOMAIN FormData(vcase.raw).v) \ (DOMAIN vcase.acc) # {}
  /\ vcase.res.acc # vcase.acc

\* C19: when the gateway's result is a plain string, sendMessage returns that
\* string and the step changes no session record and no accumulated form
\* data, of the call's session or of any other.
C19_StringPassThrough ==
  [][ (ret'.op = "gatewayReturn" /\ ret'.raw.st = "returned"
         /\ ret'.raw.value.t = "string") =>
        /\ ret'.r = Return(ret'.raw.value)
        /\ sessions' = sessions
        /\ \A id \in DOMAIN sessions :
             objects'[sessions'[id].accumulatedFormData] = Accumulated(id)
        /\ \A ref \in DOMAIN objects' : objects'[ref] = objects[ref] ]_vars

\* a plain string came back for a session that holds data, beside a session
\* that holds other data and with another call in flight
C19_Witness ==
  /\ ret.op = "gatewayReturn" /\ ret.raw.st = "returned"
  /\ ret.raw.value.t = "string" /\ ret.r.value = ret.raw.value
  /\ ret.sessionId \in DOMAIN sessions
  /\ Accumulated(ret.sessionId) # EmptyObject
  /\ \E B \in DOMAIN sessions : Accumulated(B) # Accumulated(ret.sessionId)
  /\ calls # EmptyBag

\* C20: when two results in a row carry the same form_data sequence, the
\* session holds after the second what it held after the first.
C20_ExtractionIdempotent ==
  vcase.pc = "race" =>
    \A j \in DOMAIN vcase.order :
      (/\ j >= 2
       /\ ArrivedRaw(j) = ArrivedRaw(j - 1)
       /\ FormData(ArrivedRaw(j)).t = "array") =>
        vcase.accs[j] = vcase.accs[j - 1]

\* the same sequence, naming one key twice, arrived twice in a row and had
\* changed the session's data the first time
C20_Witness ==
  /\ vcase.pc = "race"
  /\ Len(vcase.order) >= 2
  /\ ArrivedRaw(2) = ArrivedRaw(1)
  /\ FormData(ArrivedRaw(2)).t = "array"
  /\ Len(FormData(ArrivedRaw(2)).v) = 2
  /\ vcase.accs[1] # vcase.before
  /\ vcase.accs[2] = vcase.accs[1]

\* C21: when the response carries a text that JSON.parse rejects, the gateway
\* returns {ai_message: that text, form_data: []}, and sendMessage returns
\* {ai_message: that text, form_data: the accumulated data}, the accumulated
\* data being what it was before the turn.
C21_UnparsablePayloadDegrades ==
  (vcase.pc = "settled" /\ vcase.outcome.kind = "garbled") =>
    /\ vcase.raw.st = "returned"
    /\ vcase.raw.value.t = "object"
    /\ DOMAIN vcase.raw.value.v = {"ai_message", "form_data"}
    /\ vcase.raw.value.v["ai_message"] = vcase.outcome.text
    /\ vcase.raw.value.v["form_data"] = Arr(<<>>)
    /\ vcase.res.r.st = "returned"
    /\ vcase.res.r.value.t = "object"
    /\ DOMAIN vcase.res.r.value.v = {"ai_message", "form_data"}
    /\ vcase.res.r.value.v["ai_message"] = vcase.outcome.text
    /\ vcase.res.r.value.v["form_data"] = Obj(vcase.acc)
    /\ vcase.res.acc = vcase.acc

\* a text that is no JSON arrived for a session that holds two keys
C21_Witness ==
  /\ vcase.pc = "settled" /\ vcase.outcome.kind = "garbled"
  /\ Present(vcase.outcome.text)
  /\ Cardinality(DOMAIN vcase.acc) = 2
  /\ vcase.res.r.st = "returned"

\* the key contains word, whatever the case of its letters
ContainsIgnoringCase(key, word) ==
  \E i \in 1..(Len(key) - Len(word) + 1) :
    EqualIgnoringCase(SubSeq(key, i, i + Len(word) - 1), word)

NamesUrl(key) ==
  \E word \in {S_url, S_profile, S_link, S_website} : ContainsIgnoringCase(key, word)

\* the value starts with the scheme prefix http:// or https://
HasScheme(value) ==
  \/ StartsWith(value, <<"h","t","t","p",":","/","/">>)
  \/ StartsWith(value, <<"h","t","t","p","s",":","/","/">>)

\* C22: in what the gateway returns, a record with a present key and value
\* whose key contains url, profile, link or website, case aside, has https://
\* put before its value exactly when the value starts with neither http://
\* nor https://; every other record is as it was parsed; and the accumulated
\* form data holds, for such a key, the value so treated.
C22_UrlPrefixedUnlessScheme ==
  (/\ vcase.pc = "settled"
   /\ vcase.outcome.kind = "json"
   /\ vcase.outcome.parsed.t = "object"
   /\ Get(vcase.outcome.parsed, "form_data").t = "array"
   /\ \A i \in DOMAIN Get(vcase.outcome.parsed, "form_data").v :
        Get(vcase.outcome.parsed, "form_data").v[i] # Null) =>
    LET parsed == Get(vcase.outcome.parsed, "form_data").v
        Expected(f) ==
          IF Present(Get(f, "key")) /\ Present(Get(f, "value"))
               /\ NamesUrl(Get(f, "key").v) /\ ~HasScheme(Get(f, "value").v)
          THEN Field(Get(f, "key"), Str(S_https_prefix \o Get(f, "value").v))
          ELSE f
    IN /\ FormData(vcase.raw) = Arr([i \in DOMAIN parsed |-> Expected(parsed[i])])
       /\ \A k \in DOMAIN vcase.res.acc :
            Supplies(vcase.raw, k) =>
              \E i \in DOMAIN parsed :
                /\ Get(parsed[i], "key") = Str(k)
                /\ vcase.res.acc[k] = Get(Expected(parsed[i]), "value")

====
